---------------------------- MODULE Spec2Model ----------------------------
(***************************************************************************)
(* Fixed-width two's-complement integer<nbits> of the universal numbers    *)
(* library (include/universal/integer/integer.hpp), modelled at the level  *)
(* of its packed byte storage b[nrBytes].                                  *)
(*                                                                         *)
(* An integer<nbits> value is a function [0..nrBytes(n)-1 -> 0..255], the  *)
(* byte array b, least significant byte first.  A decimal is a record      *)
(* [sign, d] with d the digit sequence, least significant digit first.     *)
(* A std::string is a sequence of one-character strings.                   *)
(***************************************************************************)
EXTENDS Integers, Sequences, FiniteSets, TLC

(***************************************************************************)
(* Bounds of the model: the instantiated widths and the sampled operands.  *)
(***************************************************************************)
NarrowBits == 4
ByteBits == 8
WideBits == 9
SampleRange == 7
EdgeRange == 1
MaxDigits == 4
MaxHexDigits == 4
MaxAnyLen == 3
MaxSteps == 2
NativeLimit == 29
MaxDecimalLen == 3
CallCap == 4

Widths == {NarrowBits, ByteBits, WideBits}

\* 8 * sizeof(long long), 8 * sizeof(int64_t)
NativeBits == 64

(***************************************************************************)
(* uint8_t bit operations: bit k of a byte, and ~.                          *)
(***************************************************************************)
Pow2(k) == 2 ^ k

Bit(v, k) == (v \div Pow2(k)) % 2

Not8(p) == 255 - (p % 256)

\* (v >> k) & 1 for an int64_t v with |v| < 2^NativeLimit: the shift is
\* arithmetic, so every bit from NativeLimit on is the sign
NativeBit(v, k) == IF k >= NativeLimit THEN (IF v < 0 THEN 1 ELSE 0) ELSE Bit(v, k)

(***************************************************************************)
(* integer<nbits>: storage geometry.                                       *)
(***************************************************************************)
nrBytes(n) == 1 + ((n - 1) \div 8)

MS_BYTE(n) == nrBytes(n) - 1

MS_BYTE_MASK(n) == 255 \div Pow2(nrBytes(n) * 8 - n)

\* b[MS_BYTE] = MS_BYTE_MASK & b[MS_BYTE]
MaskTop(n, v) == [v EXCEPT ![MS_BYTE(n)] = @ % (MS_BYTE_MASK(n) + 1)]

(***************************************************************************)
(* Modifiers and selectors.                                                *)
(***************************************************************************)
\* uint8_t b[nrBytes]: the byte array holding what f gives for each index
RECURSIVE Stored(_, _)
Stored(f, last) ==
    IF last = 0 THEN 0 :> f[0] ELSE Stored(f, last - 1) @@ (last :> f[last])

clear(n) == Stored([i \in 0..MS_BYTE(n) |-> 0], MS_BYTE(n))

\* set(i), reset(i), set(i, v) and at(i) throw for i >= nbits: InRange is
\* their guard, and the value is left untouched when they throw.
InRange(n, i) == i >= 0 /\ i < n

\* set(i) without its test i < nbits
set_unchecked(n, v, i) ==
    [v EXCEPT ![i \div 8] = IF Bit(@, i % 8) = 1 THEN @ ELSE @ + Pow2(i % 8)]

set(n, v, i) ==
    IF InRange(n, i)
    THEN [v EXCEPT ![i \div 8] = IF Bit(@, i % 8) = 1 THEN @ ELSE @ + Pow2(i % 8)]
    ELSE v

\* reset(i) with the mask 1 << (i % 8) left uninverted
reset_mask_not_inverted(n, v, i) ==
    IF InRange(n, i)
    THEN [v EXCEPT ![i \div 8] = IF Bit(@, i % 8) = 1 THEN Pow2(i % 8) ELSE 0]
    ELSE v

reset(n, v, i) ==
    IF InRange(n, i)
    THEN [v EXCEPT ![i \div 8] = IF Bit(@, i % 8) = 1 THEN @ - Pow2(i % 8) ELSE @]
    ELSE v

setbit(n, v, i, bv) ==
    IF InRange(n, i)
    THEN [v EXCEPT ![i \div 8] =
              (IF Bit(@, i % 8) = 1 THEN @ - Pow2(i % 8) ELSE @)
              + (IF bv THEN 1 ELSE 0) * Pow2(i % 8)]
    ELSE v

ByteInRange(n, i) == i >= 0 /\ i < nrBytes(n)

setbyte(n, v, i, value) ==
    IF ByteInRange(n, i) THEN [v EXCEPT ![i] = value % 256] ELSE v

at(n, v, i) == Bit(v[i \div 8], i % 8) = 1

sign(n, v) == at(n, v, n - 1)

iszero(n, v) == \A i \in 0..MS_BYTE(n) : v[i] = 0

byte(n, v, i) == v[i]

flip(n, v) == MaskTop(n, Stored([i \in 0..MS_BYTE(n) |-> Not8(v[i])], MS_BYTE(n)))

set_raw_bits(n, value) ==
    MaskTop(n, Stored([i \in 0..MS_BYTE(n) |-> (value \div (256 ^ i)) % 256], MS_BYTE(n)))

\* dst.bitcopy(src) for an integer<dn> dst and an integer<sn> src
bitcopy(dn, sn, src) ==
    LET lastByte == IF nrBytes(dn) < nrBytes(sn) THEN nrBytes(dn) ELSE nrBytes(sn)
    IN  MaskTop(dn, Stored([i \in 0..MS_BYTE(dn) |-> IF i < lastByte THEN src[i] ELSE 0],
                           MS_BYTE(dn)))

\* convert(int64_t v, integer<nbits>& result); v >> i is an arithmetic shift
convert(n, v) ==
    LET upper == IF n <= 64 THEN n ELSE 64
        low == [i \in 0..MS_BYTE(n) |->
                  LET bits == {k \in 0..7 : 8 * i + k < upper /\ NativeBit(v, 8 * i + k) = 1}
                  IN  (IF 0 \in bits THEN 1 ELSE 0) + (IF 1 \in bits THEN 2 ELSE 0)
                    + (IF 2 \in bits THEN 4 ELSE 0) + (IF 3 \in bits THEN 8 ELSE 0)
                    + (IF 4 \in bits THEN 16 ELSE 0) + (IF 5 \in bits THEN 32 ELSE 0)
                    + (IF 6 \in bits THEN 64 ELSE 0) + (IF 7 \in bits THEN 128 ELSE 0)]
    IN  IF n > 64 /\ v < 0
        THEN Stored([i \in 0..MS_BYTE(n) |->
                        IF i < 8 THEN low[i]
                        ELSE IF i = MS_BYTE(n) THEN MS_BYTE_MASK(n) ELSE 255], MS_BYTE(n))
        ELSE Stored(low, MS_BYTE(n))

\* integer& operator=(const long long rhs)
assign_native(n, rhs) == IF rhs = 0 THEN clear(n) ELSE convert(n, rhs)

\* the long long built by to_long_long, bit by bit: bit i is at(i) below
\* upper, and the sign from upper on when the value is negative
NativePattern(n, v) ==
    LET upper == IF n < NativeBits THEN n ELSE NativeBits
    IN  [i \in 0..(NativeBits - 1) |-> IF i < upper THEN at(n, v, i) ELSE sign(n, v)]

RECURSIVE LowSum(_, _)
LowSum(bits, i) ==
    IF i >= NativeLimit THEN 0 ELSE (IF bits[i] THEN Pow2(i) ELSE 0) + LowSum(bits, i + 1)

\* the number a two's-complement pattern of NativeBits bits denotes; patterns
\* whose bits from NativeLimit on are not all alike denote numbers of
\* magnitude 2^NativeLimit or more, given as 2^NativeLimit
NativeNumber(bits) ==
    IF \A i \in NativeLimit..(NativeBits - 1) : ~bits[i] THEN LowSum(bits, 0)
    ELSE IF \A i \in NativeLimit..(NativeBits - 1) : bits[i] THEN LowSum(bits, 0) - Pow2(NativeLimit)
    ELSE Pow2(NativeLimit)

\* to_long_long without its sign extension loop
to_long_long_zero_extended(n, v) ==
    LET upper == IF n < NativeBits THEN n ELSE NativeBits
    IN  NativeNumber([i \in 0..(NativeBits - 1) |-> i < upper /\ at(n, v, i)])

\* long long to_long_long() const
to_long_long(n, v) == NativeNumber(NativePattern(n, v))

(***************************************************************************)
(* The conversions to native unsigned types copy bytes through a char*     *)
(* into the result.  Each yields the subscripts of b it reads, the offsets *)
(* from p it writes and the bytes of the result object, lowest address     *)
(* first.                                                                  *)
(***************************************************************************)
\* sizeof of the result type in bytes; unsigned long is as wide as unsigned
\* long long (LP64)
NativeSize(type) ==
    CASE type = "to_ushort" -> 2
      [] type = "to_uint" -> 4
      [] OTHER -> NativeBits \div 8

\* b[i]: the stored byte, and past the end of b whatever byte lies there
ReadByte(n, v, i, stray) == IF i < nrBytes(n) THEN v[i] ELSE stray[i]

\* the subscripts iszero() reads: it returns at the first nonzero byte
iszero_reads(n, v) ==
    {i \in 0..MS_BYTE(n) : \A j \in 0..(i - 1) : v[j] = 0}

\* unsigned short to_ushort() const
to_ushort(n, v, stray) ==
    IF iszero(n, v)
    THEN [reads |-> iszero_reads(n, v), writes |-> {}, bytes |-> <<0, 0>>]
    ELSE [reads |-> iszero_reads(n, v) \cup {0, 1},
          writes |-> {0, 1},
          bytes |-> <<ReadByte(n, v, 0, stray), ReadByte(n, v, 1, stray)>>]

\* unsigned int to_uint() const
to_uint(n, v, stray) ==
    [reads |-> {0, 1, 2, 3},
     writes |-> {0, 1, 2, 3},
     bytes |-> <<ReadByte(n, v, 0, stray), ReadByte(n, v, 1, stray),
                 ReadByte(n, v, 2, stray), ReadByte(n, v, 3, stray)>>]

\* for (int i = 0; i < nrBytes; ++i) *(p + i) = b[i], into a zeroed result of
\* size bytes; a write past the result leaves the result's own bytes as copied
CopyAllBytes(n, v, size) ==
    [reads |-> 0..MS_BYTE(n),
     writes |-> 0..MS_BYTE(n),
     bytes |-> [i \in 1..size |-> IF i - 1 < nrBytes(n) THEN v[i - 1] ELSE 0]]

\* unsigned long to_ulong() const
to_ulong(n, v) == CopyAllBytes(n, v, NativeSize("to_ulong"))

\* unsigned long long to_ulong_long() const
to_ulong_long(n, v) == CopyAllBytes(n, v, NativeSize("to_ulong_long"))

\* integer<nbits> min_int(): mn.set(nbits - 1, true)
min_int(n) == setbit(n, clear(n), n - 1, TRUE)

(***************************************************************************)
(* Arithmetic operators.                                                   *)
(***************************************************************************)
\* the byte loop of operator+=: sum.b[i] = (l + r + carry) & 0xFF
RECURSIVE AddBytes(_, _, _, _, _, _)
AddBytes(n, l, r, i, carry, sum) ==
    IF i >= nrBytes(n) THEN sum
    ELSE LET s == (l[i] + r[i] + (IF carry THEN 1 ELSE 0)) % 65536
         IN  AddBytes(n, l, r, i + 1, s > 255, [sum EXCEPT ![i] = s % 256])

\* operator+= without line 410, the masking of the top byte of the sum
add_eq_unmasked(n, lhs, rhs) == AddBytes(n, lhs, rhs, 0, FALSE, clear(n))

\* integer& operator+=(const integer& rhs)
add_eq(n, lhs, rhs) == MaskTop(n, AddBytes(n, lhs, rhs, 0, FALSE, clear(n)))

\* integer& operator++()
increment(n, v) == MaskTop(n, add_eq(n, v, assign_native(n, 1)))

\* integer operator~() const
complement(n, v) == flip(n, v)

\* twos_complement without ++complement
twos_complement_no_increment(n, value) == complement(n, value)

\* integer<nbits> twos_complement(const integer<nbits>& value)
twos_complement(n, value) == increment(n, complement(n, value))

\* operator-() without the increment: the one's complement only
negate_flip_only(n, v) == flip(n, v)

\* integer operator-() const
negate(n, v) == add_eq(n, flip(n, v), assign_native(n, 1))

\* integer& operator-=(const integer& rhs)
sub_eq(n, lhs, rhs) == add_eq(n, lhs, twos_complement(n, rhs))

\* integer& operator--()
decrement(n, v) == MaskTop(n, sub_eq(n, v, assign_native(n, 1)))

\* the loop of operator<<=: target.set(i, at(i - shift)) for i = shift..nbits-1
RECURSIVE ShlLoop(_, _, _, _, _)
ShlLoop(n, src, target, i, shift) ==
    IF i >= n THEN target
    ELSE ShlLoop(n, src, setbit(n, target, i, at(n, src, i - shift)), i + 1, shift)

\* the loop of operator>>=: target.set(i - shift, at(i)) for i = nbits-1..shift
RECURSIVE ShrLoop(_, _, _, _, _)
ShrLoop(n, src, target, i, shift) ==
    IF i < shift THEN target
    ELSE ShrLoop(n, src, setbit(n, target, i - shift, at(n, src, i)), i - 1, shift)

\* integer& operator<<=(const signed shift), operator>>=(const signed shift):
\* a negative amount delegates once to the opposite direction
shr_pos(n, v, shift) ==
    IF shift = 0 THEN v
    ELSE IF n <= shift THEN clear(n)
    ELSE ShrLoop(n, v, clear(n), n - 1, shift)

shl_pos(n, v, shift) ==
    IF shift = 0 THEN v
    ELSE IF n <= shift THEN clear(n)
    ELSE ShlLoop(n, v, clear(n), shift, shift)

shl_eq(n, v, shift) == IF shift < 0 THEN shr_pos(n, v, -shift) ELSE shl_pos(n, v, shift)

\* operator>>= that copies the sign bit into the vacated high bits
shr_eq_sign_fill(n, v, shift) ==
    IF shift < 0 THEN shl_pos(n, v, -shift)
    ELSE IF shift > 0 /\ shift < n /\ sign(n, v)
    THEN ShlLoop(n, flip(n, clear(n)), shr_pos(n, v, shift), n - shift, 0)
    ELSE shr_pos(n, v, shift)

shr_eq(n, v, shift) == IF shift < 0 THEN shl_pos(n, v, -shift) ELSE shr_pos(n, v, shift)

\* the loop of operator*=
RECURSIVE MulLoop(_, _, _, _, _)
MulLoop(n, base, multiplicant, acc, i) ==
    IF i >= n THEN acc
    ELSE CHOOSE r \in
           { MulLoop(n, base, m, s, i + 1) :
               m \in {shl_eq(n, multiplicant, 1)},
               s \in {IF at(n, base, i) THEN add_eq(n, acc, multiplicant) ELSE acc} } : TRUE

\* operator*= with its loop started at i = 1
mul_eq_from_bit_one(n, lhs, rhs) == MulLoop(n, lhs, rhs, clear(n), 1)

\* integer& operator*=(const integer& rhs)
mul_eq(n, lhs, rhs) == MulLoop(n, lhs, rhs, clear(n), 0)

(***************************************************************************)
(* Comparisons and findMsb.                                                *)
(***************************************************************************)
\* bool operator==(lhs, rhs): compares the storage bytes
op_eq(n, lhs, rhs) == \A i \in 0..MS_BYTE(n) : lhs[i] = rhs[i]

RECURSIVE LtScan(_, _, _, _)
LtScan(n, lhs, rhs, i) ==
    IF i < 0 THEN FALSE
    ELSE LET l == at(n, lhs, i)
             r == at(n, rhs, i)
         IN  IF l # r THEN l = FALSE ELSE LtScan(n, lhs, rhs, i - 1)

\* operator< without its two sign tests: the bit scan alone
op_lt_unsigned(n, lhs, rhs) == LtScan(n, lhs, rhs, n - 1)

\* bool operator<(lhs, rhs)
op_lt(n, lhs, rhs) ==
    IF sign(n, lhs) /\ ~sign(n, rhs) THEN TRUE
    ELSE IF sign(n, rhs) /\ ~sign(n, lhs) THEN FALSE
    ELSE LtScan(n, lhs, rhs, n - 1)

op_gt(n, lhs, rhs) == op_lt(n, rhs, lhs)

\* operator<= taken for operator<
op_le_strict(n, lhs, rhs) == op_lt(n, lhs, rhs)

op_le(n, lhs, rhs) == op_lt(n, lhs, rhs) \/ op_eq(n, lhs, rhs)

op_ge(n, lhs, rhs) == ~op_lt(n, lhs, rhs)

\* the loop of scale: while (v > 1) { ++scale; v >>= 1; } where v > 1 is
\* operator<(integer<nbits>(1), v)
RECURSIVE ScaleLoop(_, _, _)
ScaleLoop(n, v, count) ==
    IF op_lt(n, assign_native(n, 1), v)
    THEN ScaleLoop(n, shr_eq(n, v, 1), count + 1)
    ELSE count

\* scale without the special case of the largest negative number
scale_no_special_case(n, i) ==
    ScaleLoop(n, IF sign(n, i) THEN twos_complement(n, i) ELSE i, 0)

\* long scale(const integer<nbits>& i)
scale(n, i) ==
    IF sign(n, i)
    THEN LET v == twos_complement(n, i)
         IN  IF op_eq(n, v, i) THEN n - 1 ELSE ScaleLoop(n, v, 0)
    ELSE ScaleLoop(n, i, 0)

\* the bit scan of findMsb run upward: the lowest set bit of the byte
RECURSIVE MsbInByte_lowest(_, _)
MsbInByte_lowest(bv, j) ==
    IF j < 0 THEN -1
    ELSE IF Bit(bv, 7 - j) = 1 THEN 7 - j
    ELSE MsbInByte_lowest(bv, j - 1)

RECURSIVE MsbInByte(_, _)
MsbInByte(bv, j) ==
    IF j < 0 THEN -1
    ELSE IF Bit(bv, j) = 1 THEN j
    ELSE MsbInByte(bv, j - 1)

RECURSIVE MsbScan(_, _)
MsbScan(v, i) ==
    IF i < 0 THEN -1
    ELSE IF v[i] # 0 THEN i * 8 + MsbInByte(v[i], 7)
    ELSE MsbScan(v, i - 1)

findMsb(n, v) == MsbScan(v, nrBytes(n) - 1)

\* the loop of TestFindMsb: msb = findMsb(a); if (msb >= 0) a.reset(msb);
\* run until findMsb returns -1 or reset throws.  resets counts the resets
\* made, descending tells whether every index was below the one before it.
RECURSIVE FindMsbLoop(_, _, _, _, _)
FindMsbLoop(n, v, prev, resets, descending) ==
    LET msb == findMsb(n, v)
    IN  IF msb < 0
        THEN [err |-> "none", value |-> v, resets |-> resets, descending |-> descending]
        ELSE IF ~InRange(n, msb)
        THEN [err |-> "integer<nbits> bit index out of bounds", value |-> v,
              resets |-> resets, descending |-> descending]
        ELSE FindMsbLoop(n, reset(n, v, msb), msb, resets + 1,
                         descending /\ (resets = 0 \/ msb < prev))

\* exp.isodd(): if (exp & 1)
isodd(n, v) == at(n, v, 0)

\* one pass of the loop of ipow with base *= base moved before result *= base
ipow_pass_squaring_first(n, s) ==
    LET square == mul_eq(n, s.base, s.base)
        result == IF isodd(n, s.exp) THEN mul_eq(n, s.result, square) ELSE s.result
        exp == shr_eq(n, s.exp, 1)
    IN  [result |-> result, exp |-> exp, base |-> square, done |-> iszero(n, exp)]

\* one pass of the loop of ipow: if (exp.isodd()) result *= base; exp >>= 1;
\* if (exp == 0) break; base *= base.  s holds result, base and exp.
ipow_pass(n, s) ==
    LET result == IF isodd(n, s.exp) THEN mul_eq(n, s.result, s.base) ELSE s.result
        exp == shr_eq(n, s.exp, 1)
    IN  IF op_eq(n, exp, clear(n))
        THEN [result |-> result, exp |-> exp, base |-> s.base, done |-> TRUE]
        ELSE [result |-> result, exp |-> exp, base |-> mul_eq(n, s.base, s.base),
              done |-> FALSE]

(***************************************************************************)
(* Long division: idiv, divide, remainder, operator/= and operator%=.      *)
(* A result is a record [err, logged, quot, rem]: err names the exception  *)
(* that left the function ("none" when it returned), logged tells whether  *)
(* the integer_divide_by_zero diagnostic was written to std::cerr.         *)
(***************************************************************************)
\* template<size_t srcbits> integer(const integer<srcbits>& a)
convert_ctor(dn, sn, src) ==
    LET RECURSIVE Extend(_, _)
        Extend(v, i) == IF i >= dn THEN v ELSE Extend(set(dn, v, i), i + 1)
    IN  IF sign(sn, src) THEN Extend(bitcopy(dn, sn, src), sn) ELSE bitcopy(dn, sn, src)

\* the long division loop ended one pass early: for (i = shift; i > 0; --i)
RECURSIVE LongDiv_ending_early(_, _, _, _, _)
LongDiv_ending_early(n, i, subtractand, accumulator, quot) ==
    IF i < 1 THEN [err |-> "none", accumulator |-> accumulator, quot |-> quot]
    ELSE IF op_le(n + 1, subtractand, accumulator)
    THEN LongDiv_ending_early(n, i - 1, shr_eq(n + 1, subtractand, 1),
                              sub_eq(n + 1, accumulator, subtractand), set(n, quot, i))
    ELSE LongDiv_ending_early(n, i - 1, shr_eq(n + 1, subtractand, 1),
                              accumulator, reset(n, quot, i))

\* the long division loop of idiv, on integer<nbits + 1> temporaries;
\* quot.set(i) and quot.reset(i) throw for i >= nbits
RECURSIVE LongDiv(_, _, _, _, _)
LongDiv(n, i, subtractand, accumulator, quot) ==
    IF i < 0 THEN [err |-> "none", accumulator |-> accumulator, quot |-> quot]
    ELSE IF ~InRange(n, i)
    THEN [err |-> "integer<nbits> bit index out of bounds", accumulator |->
              IF op_le(n + 1, subtractand, accumulator)
              THEN sub_eq(n + 1, accumulator, subtractand) ELSE accumulator,
          quot |-> quot]
    ELSE IF op_le(n + 1, subtractand, accumulator)
    THEN LongDiv(n, i - 1, shr_eq(n + 1, subtractand, 1),
                 sub_eq(n + 1, accumulator, subtractand), set(n, quot, i))
    ELSE LongDiv(n, i - 1, shr_eq(n + 1, subtractand, 1),
                 accumulator, reset(n, quot, i))

\* idiv copying the operand as it is, without negating a negative one
idiv_abs_raw(n, x) == bitcopy(n + 1, n, x)

\* the temporary built by the widening constructor, which extends the sign
idiv_abs_sign_extended(n, x) ==
    convert_ctor(n + 1, n, IF sign(n, x) THEN negate(n, x) ELSE x)

\* the (nbits + 1)-bit absolute value idiv builds of an operand
idiv_abs(n, x) == bitcopy(n + 1, n, IF sign(n, x) THEN negate(n, x) ELSE x)

\* idiv_t<nbits> idiv(const integer<nbits>& _a, const integer<nbits>& _b)
idiv(n, throwing, _a, _b) ==
    LET isZero == op_eq(n, _b, assign_native(n, 0))
        result_negative == sign(n, _a) # sign(n, _b)
        ua == idiv_abs(n, _a)
        ub == idiv_abs(n, _b)
        shift == findMsb(n + 1, ua) - findMsb(n + 1, ub)
        ld == LongDiv(n, shift, shl_eq(n + 1, ub, shift), ua, clear(n))
    IN  IF isZero /\ throwing
        THEN [err |-> "integer_divide_by_zero", logged |-> FALSE,
              quot |-> clear(n), rem |-> clear(n)]
        ELSE IF op_lt(n + 1, ua, ub)
        THEN [err |-> "none", logged |-> isZero, quot |-> clear(n), rem |-> _a]
        ELSE IF ld.err # "none"
        THEN [err |-> ld.err, logged |-> isZero, quot |-> ld.quot, rem |-> clear(n)]
        ELSE [err |-> "none", logged |-> isZero,
              quot |-> IF result_negative
                       THEN add_eq(n, flip(n, ld.quot), assign_native(n, 1))
                       ELSE ld.quot,
              rem |-> IF op_lt(n, _a, assign_native(n, 0))
                      THEN convert_ctor(n, n + 1, negate(n + 1, ld.accumulator))
                      ELSE convert_ctor(n, n + 1, ld.accumulator)]

\* void divide(a, b, quotient) and void remainder(a, b, remainder): the
\* zero test of their own, then idiv
divide(n, throwing, x, y) ==
    IF op_eq(n, y, assign_native(n, 0)) /\ throwing
    THEN [err |-> "integer_divide_by_zero", logged |-> FALSE,
          quot |-> clear(n), rem |-> clear(n)]
    ELSE idiv(n, throwing, x, y)

remainder(n, throwing, x, y) ==
    IF op_eq(n, y, assign_native(n, 0)) /\ throwing
    THEN [err |-> "integer_divide_by_zero", logged |-> FALSE,
          quot |-> clear(n), rem |-> clear(n)]
    ELSE idiv(n, throwing, x, y)

\* operator/= assigning the quotient record also when idiv threw
div_eq_assigning(n, throwing, lhs, rhs) ==
    LET r == idiv(n, throwing, lhs, rhs)
    IN  [err |-> r.err, value |-> r.quot]

\* integer& operator/=(rhs), operator%=(rhs): *this is assigned only when
\* idiv returned
div_eq(n, throwing, lhs, rhs) ==
    LET r == idiv(n, throwing, lhs, rhs)
    IN  [err |-> r.err, value |-> IF r.err = "none" THEN r.quot ELSE lhs]

rem_eq(n, throwing, lhs, rhs) ==
    LET r == idiv(n, throwing, lhs, rhs)
    IN  [err |-> r.err, value |-> IF r.err = "none" THEN r.rem ELSE lhs]

(***************************************************************************)
(* impl::decimal: uint8_t digits, least significant first, with a sign.    *)
(***************************************************************************)
\* lhs.insert(lhs.end(), k, 0)
PadZeros(d, k) == d \o [i \in 1..k |-> 0]

\* void decimal::unpad(): i runs over the original indices n-1..1 and every
\* zero found at index i pops the current back
RECURSIVE UnpadLoop(_, _)
UnpadLoop(d, i) ==
    IF i <= 1 THEN d
    ELSE UnpadLoop(IF d[i] = 0 THEN SubSeq(d, 1, Len(d) - 1) ELSE d, i - 1)

unpad(d) == UnpadLoop(d, Len(d))

\* bool less(const decimal& lhs, const decimal& rhs)
RECURSIVE LessScan(_, _, _)
LessScan(l, r, i) ==
    IF i < 1 THEN FALSE
    ELSE IF l[i] < r[i] THEN TRUE
    ELSE IF l[i] > r[i] THEN FALSE
    ELSE LessScan(l, r, i - 1)

\* less with the two length tests exchanged
less_lengths_exchanged(lhs, rhs) ==
    IF Len(lhs.d) > Len(rhs.d) THEN TRUE
    ELSE IF Len(lhs.d) < Len(rhs.d) THEN FALSE
    ELSE LessScan(lhs.d, rhs.d, Len(lhs.d))

less(lhs, rhs) ==
    IF Len(lhs.d) < Len(rhs.d) THEN TRUE
    ELSE IF Len(lhs.d) > Len(rhs.d) THEN FALSE
    ELSE LessScan(lhs.d, rhs.d, Len(lhs.d))

\* the digit loop of add without the final if (carry) lhs.push_back(1)
RECURSIVE AddDigits_dropping_carry(_, _, _, _)
AddDigits_dropping_carry(l, r, i, carry) ==
    IF i > Len(l) THEN l
    ELSE LET t == (l[i] + ((r[i] + carry) % 256)) % 256
         IN  IF t > 9
             THEN AddDigits_dropping_carry([l EXCEPT ![i] = (t - 10) % 256], r, i + 1, 1)
             ELSE AddDigits_dropping_carry([l EXCEPT ![i] = t], r, i + 1, 0)

\* the digit loop of add: *lit += *rit + carry, in uint8_t
RECURSIVE AddDigits(_, _, _, _)
AddDigits(l, r, i, carry) ==
    IF i > Len(l) THEN IF carry = 1 THEN Append(l, 1) ELSE l
    ELSE LET t == (l[i] + ((r[i] + carry) % 256)) % 256
         IN  IF t > 9
             THEN AddDigits([l EXCEPT ![i] = (t - 10) % 256], r, i + 1, 1)
             ELSE AddDigits([l EXCEPT ![i] = t], r, i + 1, 0)

\* the digit loop of sub
RECURSIVE SubDigits(_, _, _, _)
SubDigits(l, r, i, borrow) ==
    IF i > Len(l) THEN l
    ELSE IF r[i] > l[i] - borrow
    THEN SubDigits([l EXCEPT ![i] = (10 + l[i] - borrow - r[i]) % 256], r, i + 1, 1)
    ELSE SubDigits([l EXCEPT ![i] = (l[i] - borrow - r[i]) % 256], r, i + 1, 0)

\* add and sub with operands of one sign (the part after the redirection)
add_same(lhs, rhs) ==
    LET l == Len(lhs.d)
        r == Len(rhs.d)
        ld == IF l < r THEN PadZeros(lhs.d, r - l) ELSE lhs.d
        rd == IF l < r THEN rhs.d ELSE PadZeros(rhs.d, l - r)
    IN  [sign |-> lhs.sign, d |-> AddDigits(ld, rd, 1, 0)]

sub_same(lhs, rhs) ==
    LET l == Len(lhs.d)
        r == Len(rhs.d)
        swapped == IF l < r THEN TRUE
                   ELSE IF r < l THEN FALSE
                   ELSE less(lhs, rhs)
        ld == IF l < r THEN PadZeros(lhs.d, r - l) ELSE lhs.d
        rd == IF r < l THEN PadZeros(rhs.d, l - r) ELSE rhs.d
        big == IF swapped THEN rd ELSE ld
        small == IF swapped THEN ld ELSE rd
    IN  [sign |-> IF swapped THEN ~lhs.sign ELSE lhs.sign,
         d |-> unpad(SubDigits(big, small, 1, 0))]

\* add and sub as they call each other.  calls counts the calls of add and
\* sub made so far; a chain of calls is followed up to CallCap calls and
\* returned tells whether it came back within them.
RECURSIVE add_call(_, _, _)
RECURSIVE sub_call(_, _, _)

\* add redirecting to sub with rhs as it is, its sign not inverted
add_call_sign_kept(lhs, rhs, calls) ==
    IF calls >= CallCap THEN [value |-> lhs, calls |-> calls, returned |-> FALSE]
    ELSE IF lhs.sign # rhs.sign
    THEN sub_call(lhs, rhs, calls + 1)
    ELSE [value |-> add_same(lhs, rhs), calls |-> calls + 1, returned |-> TRUE]

\* void add(decimal& lhs, const decimal& rhs), called as the calls-th call
add_call(lhs, rhs, calls) ==
    IF calls >= CallCap THEN [value |-> lhs, calls |-> calls, returned |-> FALSE]
    ELSE IF lhs.sign # rhs.sign
    THEN sub_call(lhs, [rhs EXCEPT !.sign = ~rhs.sign], calls + 1)
    ELSE [value |-> add_same(lhs, rhs), calls |-> calls + 1, returned |-> TRUE]

\* void sub(decimal& lhs, const decimal& rhs), called as the calls-th call
sub_call(lhs, rhs, calls) ==
    IF calls >= CallCap THEN [value |-> lhs, calls |-> calls, returned |-> FALSE]
    ELSE IF lhs.sign # rhs.sign
    THEN add_call(lhs, [rhs EXCEPT !.sign = ~rhs.sign], calls + 1)
    ELSE [value |-> sub_same(lhs, rhs), calls |-> calls + 1, returned |-> TRUE]

\* void add(decimal& lhs, const decimal& rhs): lhs as the call leaves it
add(lhs, rhs) == add_call(lhs, rhs, 0).value

\* void sub(decimal& lhs, const decimal& rhs): lhs as the call leaves it
sub(lhs, rhs) == sub_call(lhs, rhs, 0).value

(***************************************************************************)
(* Text: convert_to_decimal_string and parse.                              *)
(***************************************************************************)
DigitChars == <<"0", "1", "2", "3", "4", "5", "6", "7", "8", "9">>

\* ss << (int)*rit for one digit
DigitText(dv) ==
    IF dv < 10 THEN <<DigitChars[dv + 1]>>
    ELSE IF dv < 100 THEN <<DigitChars[(dv \div 10) + 1], DigitChars[(dv % 10) + 1]>>
    ELSE <<DigitChars[(dv \div 100) + 1], DigitChars[((dv \div 10) % 10) + 1],
           DigitChars[(dv % 10) + 1]>>

RECURSIVE ReverseDigits(_, _)
ReverseDigits(d, i) ==
    IF i < 1 THEN <<>> ELSE DigitText(d[i]) \o ReverseDigits(d, i - 1)

\* the double-and-add loop of convert_to_decimal_string
RECURSIVE RenderLoop(_, _, _, _, _)
RenderLoop(n, number, i, partial, multiplier) ==
    IF i >= n THEN partial
    ELSE CHOOSE r \in
           { RenderLoop(n, number, i + 1, p, m) :
               p \in {IF at(n, number, i) THEN add(partial, multiplier) ELSE partial},
               m \in {add(multiplier, multiplier)} } : TRUE

\* std::string convert_to_decimal_string(const integer<nbits>& value)
convert_to_decimal_string(n, value) ==
    IF iszero(n, value) THEN <<"0">>
    ELSE LET number == IF sign(n, value) THEN twos_complement(n, value) ELSE value
             partial == RenderLoop(n, number, 0, [sign |-> FALSE, d |-> <<0>>],
                                   [sign |-> FALSE, d |-> <<1>>])
         IN  (IF sign(n, value) THEN <<"-">> ELSE <<>>)
             \o ReverseDigits(partial.d, Len(partial.d))

HexLetters == {"a", "b", "c", "d", "e", "f", "A", "B", "C", "D", "E", "F"}

DecChars == {DigitChars[i] : i \in 1..10}

\* std::map<char, int> charLookup
charLookup(c) ==
    IF c \in DecChars THEN (CHOOSE i \in 1..10 : DigitChars[i] = c) - 1
    ELSE IF c \in {"a", "A"} THEN 10
    ELSE IF c \in {"b", "B"} THEN 11
    ELSE IF c \in {"c", "C"} THEN 12
    ELSE IF c \in {"d", "D"} THEN 13
    ELSE IF c \in {"e", "E"} THEN 14
    ELSE 15

\* std::regex_match(number, std::regex("[0-9]+"))
decimal_regex(number) ==
    Len(number) >= 1 /\ \A i \in 1..Len(number) : number[i] \in DecChars

\* std::regex_match(number, std::regex("^0[1-7][0-7]*$"))
octal_regex(number) ==
    /\ Len(number) >= 2
    /\ number[1] = "0"
    /\ number[2] \in {"1", "2", "3", "4", "5", "6", "7"}
    /\ \A i \in 3..Len(number) : number[i] \in {"0", "1", "2", "3", "4", "5", "6", "7"}

\* std::regex_match(number, std::regex("0[xX][0-9a-fA-F']+"))
hex_regex(number) ==
    /\ Len(number) >= 3
    /\ number[1] = "0"
    /\ number[2] \in {"x", "X"}
    /\ \A i \in 3..Len(number) : number[i] \in DecChars \cup HexLetters \cup {"'"}

\* the reverse loop of the hexadecimal branch; st = [value, byte, byteIndex,
\* odd, ok, err]; value.setbyte throws integer_byte_index_out_of_bounds
RECURSIVE HexLoop(_, _, _, _)
HexLoop(n, number, i, st) ==
    IF i < 1 \/ st.err # "none" THEN st
    ELSE LET c == number[i]
             full == st.byte + charLookup(c) * 16
         IN  IF c = "'" THEN HexLoop(n, number, i - 1, st)
             ELSE IF c \in {"x", "X"}
             THEN IF st.odd
                  THEN IF ByteInRange(n, st.byteIndex)
                       THEN HexLoop(n, number, i - 1,
                                [st EXCEPT !.value = setbyte(n, @, st.byteIndex, st.byte),
                                           !.ok = TRUE])
                       ELSE [st EXCEPT !.err = "integer_byte_index_out_of_bounds"]
                  ELSE HexLoop(n, number, i - 1, [st EXCEPT !.ok = TRUE])
             ELSE IF st.odd
             THEN IF ByteInRange(n, st.byteIndex)
                  THEN HexLoop(n, number, i - 1,
                           [st EXCEPT !.value = setbyte(n, @, st.byteIndex, full),
                                      !.byte = full,
                                      !.byteIndex = @ + 1,
                                      !.odd = FALSE])
                  ELSE [st EXCEPT !.byte = full,
                                  !.err = "integer_byte_index_out_of_bounds"]
             ELSE HexLoop(n, number, i - 1,
                      [st EXCEPT !.byte = charLookup(c), !.odd = TRUE])

\* the decimal loop without scale *= 10
RECURSIVE DecLoop_fixed_scale(_, _, _, _, _)
DecLoop_fixed_scale(n, number, i, value, factor) ==
    IF i < 1 THEN value
    ELSE CHOOSE r \in
           { DecLoop_fixed_scale(n, number, i - 1, v, factor) :
               v \in {add_eq(n, value,
                             mul_eq(n, factor, assign_native(n, charLookup(number[i]))))} } : TRUE

\* the reverse loop of the decimal branch: value += scale * digit; scale *= 10
\* (factor is the source's scale; v and s are the two variables as the
\* iteration leaves them)
RECURSIVE DecLoop(_, _, _, _, _)
DecLoop(n, number, i, value, factor) ==
    IF i < 1 THEN value
    ELSE CHOOSE r \in
           { DecLoop(n, number, i - 1, v, s) :
               v \in {add_eq(n, value,
                             mul_eq(n, factor, assign_native(n, charLookup(number[i]))))},
               s \in {mul_eq(n, factor, assign_native(n, 10))} } : TRUE

\* parse without the octal branch: an octal-looking text is read as decimal
parse_octal_as_decimal(n, number) ==
    IF hex_regex(number)
    THEN LET st == HexLoop(n, number, Len(number),
                       [value |-> clear(n), byte |-> 0, byteIndex |-> 0,
                        odd |-> FALSE, ok |-> FALSE, err |-> "none"])
         IN  [err |-> st.err, ok |-> st.ok, value |-> st.value]
    ELSE IF decimal_regex(number)
    THEN [err |-> "none", ok |-> TRUE,
          value |-> DecLoop(n, number, Len(number), clear(n), assign_native(n, 1))]
    ELSE [err |-> "none", ok |-> FALSE, value |-> clear(n)]

\* bool parse(const std::string& number, integer<nbits>& value): the result
\* is [err, ok, value], value being the target as parse left it
parse(n, number) ==
    IF octal_regex(number)
    THEN [err |-> "none", ok |-> FALSE, value |-> clear(n)]
    ELSE IF hex_regex(number)
    THEN LET st == HexLoop(n, number, Len(number),
                       [value |-> clear(n), byte |-> 0, byteIndex |-> 0,
                        odd |-> FALSE, ok |-> FALSE, err |-> "none"])
         IN  [err |-> st.err, ok |-> st.ok, value |-> st.value]
    ELSE IF decimal_regex(number)
    THEN [err |-> "none", ok |-> TRUE,
          value |-> DecLoop(n, number, Len(number), clear(n), assign_native(n, 1))]
    ELSE [err |-> "none", ok |-> FALSE, value |-> clear(n)]

\* integer& assign(const std::string& txt)
assign(n, txt) ==
    LET r == parse(n, txt)
    IN  [err |-> r.err, value |-> IF r.err = "none" THEN MaskTop(n, r.value) ELSE r.value]

(***************************************************************************)
(* Mathematical reference values, used to state the properties.            *)
(***************************************************************************)
\* the unsigned number held by the nbits value bits of v
RECURSIVE BitsValue(_, _, _)
BitsValue(n, v, i) ==
    IF i >= n THEN 0 ELSE (IF at(n, v, i) THEN Pow2(i) ELSE 0) + BitsValue(n, v, i + 1)

Unsigned(n, v) == BitsValue(n, v, 0)

\* the signed two's-complement number held by the nbits value bits of v
Signed(n, v) ==
    IF Unsigned(n, v) >= Pow2(n - 1) THEN Unsigned(n, v) - Pow2(n) ELSE Unsigned(n, v)

MinValue(n) == -Pow2(n - 1)

MaxValue(n) == Pow2(n - 1) - 1

\* k reduced modulo 2^n into the two's-complement range
Wrap(n, k) ==
    IF k % Pow2(n) >= Pow2(n - 1) THEN (k % Pow2(n)) - Pow2(n) ELSE k % Pow2(n)

Abs(k) == IF k < 0 THEN -k ELSE k

\* the quotient of k by m rounded toward zero, m # 0
TruncDiv(k, m) ==
    IF (k < 0) = (m < 0) THEN Abs(k) \div Abs(m) ELSE -(Abs(k) \div Abs(m))

\* invariant I1: every storage bit at position >= nbits is zero
Masked(n, v) == v[MS_BYTE(n)] < Pow2(n - 8 * MS_BYTE(n))

\* the number a string of decimal digits denotes
RECURSIVE DecimalNumber(_, _)
DecimalNumber(number, i) ==
    IF i < 1 THEN 0 ELSE charLookup(number[i]) + 10 * DecimalNumber(number, i - 1)

\* the number the hexadecimal digits of number[3..i] denote, apostrophes skipped
RECURSIVE HexNumber(_, _)
HexNumber(number, i) ==
    IF i < 3 THEN 0
    ELSE IF number[i] = "'" THEN HexNumber(number, i - 1)
    ELSE HexNumber(number, i - 1) * 16 + charLookup(number[i])

\* the decimal numeral of a natural number k, without leading zeros
RECURSIVE Numeral(_)
Numeral(k) ==
    IF k < 10 THEN <<DigitChars[k + 1]>>
    ELSE Numeral(k \div 10) \o <<DigitChars[(k % 10) + 1]>>

(***************************************************************************)
(* Inputs: sampled operands and input strings.                             *)
(***************************************************************************)
\* the signed numbers an operand is drawn from: the small ones, the ones
\* next to the minimum and the maximum, and the powers of two
Samples(n) ==
    {k \in MinValue(n)..MaxValue(n) :
        \/ Abs(k) <= SampleRange
        \/ k - MinValue(n) <= EdgeRange
        \/ MaxValue(n) - k <= EdgeRange
        \/ \E j \in 0..n : Abs(k) = Pow2(j)}

Operands(n) == {convert(n, k) : k \in Samples(n)}

RECURSIVE StringsUpTo(_, _)
StringsUpTo(alphabet, len) ==
    IF len = 0 THEN {<<>>}
    ELSE LET shorter == StringsUpTo(alphabet, len - 1)
         IN  shorter \cup {Append(t, c) : t \in shorter, c \in alphabet}

DecStrings == StringsUpTo({"0", "1", "7", "9"}, MaxDigits) \ {<<>>}

HexStrings ==
    {<<"0", m>> \o t : m \in {"x", "X"},
                       t \in StringsUpTo({"0", "1", "F", "a", "'"}, MaxHexDigits) \ {<<>>}}

AnyStrings == StringsUpTo({"0", "1", "8", "x", "F", "'", "-", "g"}, MaxAnyLen)

Strings == DecStrings \cup HexStrings \cup AnyStrings

(***************************************************************************)
(* State.  x is the integer<nb> object operated on; a is the value x had   *)
(* when the last operation was called and b that operation's integer       *)
(* operand; txt is its string operand; op names the last operation, err    *)
(* the exception that left it ("none" when it returned), out what it       *)
(* returned.  strict is INTEGER_THROW_ARITHMETIC_EXCEPTION.                 *)
(***************************************************************************)
VARIABLES nb, strict, x, a, b, txt, op, err, out, steps

vars == <<nb, strict, x, a, b, txt, op, err, out, steps>>

NoOut(n) ==
    [quot |-> clear(n), rem |-> clear(n), logged |-> FALSE, ok |-> FALSE,
     value |-> clear(n), text |-> <<>>, arg |-> 0, read |-> 0,
     flag |-> FALSE, exp |-> clear(n), ua |-> clear(n + 1), ub |-> clear(n + 1),
     cmp |-> [lt |-> FALSE, eq |-> FALSE, gt |-> FALSE, le |-> FALSE],
     reads |-> {}, writes |-> {}, bytes |-> <<>>]

(***************************************************************************)
(* SpecDiv: one division of a by b.                                        *)
(***************************************************************************)
InitDiv ==
    /\ nb \in Widths
    /\ strict \in BOOLEAN
    /\ a \in Operands(nb)
    /\ b \in Operands(nb)
    /\ x = a
    /\ txt = <<>>
    /\ op = "init"
    /\ err = "none"
    /\ out = NoOut(nb)
    /\ steps = 0

\* idiv(a, b): the pair it returns, or the exception that leaves it; out.ua
\* and out.ub are its temporaries a and b, built unless the zero test threw
Idiv ==
    /\ op = "init"
    /\ \E r \in {idiv(nb, strict, a, b)} :
       /\ err' = r.err
       /\ out' = IF r.err = "none"
                 THEN [out EXCEPT !.quot = r.quot, !.rem = r.rem, !.logged = r.logged,
                                  !.ua = idiv_abs(nb, a), !.ub = idiv_abs(nb, b)]
                 ELSE IF r.err = "integer_divide_by_zero"
                 THEN [out EXCEPT !.logged = r.logged]
                 ELSE [out EXCEPT !.logged = r.logged,
                                  !.ua = idiv_abs(nb, a), !.ub = idiv_abs(nb, b)]
    /\ op' = "idiv"
    /\ steps' = steps + 1
    /\ UNCHANGED <<nb, strict, x, a, b, txt>>

\* divide(a, b, quotient): quotient is assigned only when idiv returned
Divide ==
    /\ op = "init"
    /\ \E r \in {divide(nb, strict, a, b)} :
       /\ err' = r.err
       /\ out' = IF r.err = "none"
                 THEN [out EXCEPT !.quot = r.quot, !.logged = r.logged]
                 ELSE [out EXCEPT !.logged = r.logged]
    /\ op' = "divide"
    /\ steps' = steps + 1
    /\ UNCHANGED <<nb, strict, x, a, b, txt>>

\* remainder(a, b, remainder)
Remainder ==
    /\ op = "init"
    /\ \E r \in {remainder(nb, strict, a, b)} :
       /\ err' = r.err
       /\ out' = IF r.err = "none"
                 THEN [out EXCEPT !.rem = r.rem, !.logged = r.logged]
                 ELSE [out EXCEPT !.logged = r.logged]
    /\ op' = "remainder"
    /\ steps' = steps + 1
    /\ UNCHANGED <<nb, strict, x, a, b, txt>>

\* x /= b
DivAssign ==
    /\ op = "init"
    /\ \E r \in {div_eq(nb, strict, x, b)} :
       /\ err' = r.err
       /\ x' = r.value
    /\ op' = "div_eq"
    /\ steps' = steps + 1
    /\ UNCHANGED <<nb, strict, a, b, txt, out>>

\* x %= b
RemAssign ==
    /\ op = "init"
    /\ \E r \in {rem_eq(nb, strict, x, b)} :
       /\ err' = r.err
       /\ x' = r.value
    /\ op' = "rem_eq"
    /\ steps' = steps + 1
    /\ UNCHANGED <<nb, strict, a, b, txt, out>>

NextDiv == Idiv \/ Divide \/ Remainder \/ DivAssign \/ RemAssign

SpecDiv == InitDiv /\ [][NextDiv]_vars

(***************************************************************************)
(* SpecArith: one arithmetic operator applied to a (and b).                *)
(***************************************************************************)
InitArith ==
    /\ nb \in Widths
    /\ strict = TRUE
    /\ a \in Operands(nb)
    /\ b \in Operands(nb)
    /\ x = a
    /\ txt = <<>>
    /\ op = "init"
    /\ err = "none"
    /\ out = NoOut(nb)
    /\ steps = 0

\* x += b
AddAssign ==
    /\ op = "init"
    /\ x' = add_eq(nb, x, b)
    /\ op' = "add_eq"
    /\ steps' = steps + 1
    /\ UNCHANGED <<nb, strict, a, b, txt, err, out>>

\* x -= b
SubAssign ==
    /\ op = "init"
    /\ x' = sub_eq(nb, x, b)
    /\ op' = "sub_eq"
    /\ steps' = steps + 1
    /\ UNCHANGED <<nb, strict, a, b, txt, err, out>>

\* -x, returned by value
Negate ==
    /\ op = "init"
    /\ out' = [out EXCEPT !.value = negate(nb, x)]
    /\ op' = "negate"
    /\ steps' = steps + 1
    /\ UNCHANGED <<nb, strict, x, a, b, txt, err>>

\* twos_complement(x), returned by value
TwosComplement ==
    /\ op = "init"
    /\ out' = [out EXCEPT !.value = twos_complement(nb, x)]
    /\ op' = "twos_complement"
    /\ steps' = steps + 1
    /\ UNCHANGED <<nb, strict, x, a, b, txt, err>>

\* the shift amounts: both directions, zero, one short of nbits, nbits, beyond
ShiftAmounts(n) == {-(n + 1), -n, 1 - n, -1, 0, 1, 2, n - 1, n, n + 1}

\* x < b
Less ==
    /\ op = "init"
    /\ out' = [out EXCEPT !.flag = op_lt(nb, x, b)]
    /\ op' = "lt"
    /\ steps' = steps + 1
    /\ UNCHANGED <<nb, strict, x, a, b, txt, err>>

\* x > b
Greater ==
    /\ op = "init"
    /\ out' = [out EXCEPT !.flag = op_gt(nb, x, b)]
    /\ op' = "gt"
    /\ steps' = steps + 1
    /\ UNCHANGED <<nb, strict, x, a, b, txt, err>>

\* x <= b
LessEqual ==
    /\ op = "init"
    /\ out' = [out EXCEPT !.flag = op_le(nb, x, b)]
    /\ op' = "le"
    /\ steps' = steps + 1
    /\ UNCHANGED <<nb, strict, x, a, b, txt, err>>

\* x >= b
GreaterEqual ==
    /\ op = "init"
    /\ out' = [out EXCEPT !.flag = op_ge(nb, x, b)]
    /\ op' = "ge"
    /\ steps' = steps + 1
    /\ UNCHANGED <<nb, strict, x, a, b, txt, err>>

\* x <<= shift: out.arg is the shift
ShlAssign ==
    /\ op = "init"
    /\ \E shift \in ShiftAmounts(nb) :
       /\ x' = shl_eq(nb, x, shift)
       /\ out' = [out EXCEPT !.arg = shift]
    /\ op' = "shl_eq"
    /\ steps' = steps + 1
    /\ UNCHANGED <<nb, strict, a, b, txt, err>>

\* x >>= shift: out.arg is the shift
ShrAssign ==
    /\ op = "init"
    /\ \E shift \in ShiftAmounts(nb) :
       /\ x' = shr_eq(nb, x, shift)
       /\ out' = [out EXCEPT !.arg = shift]
    /\ op' = "shr_eq"
    /\ steps' = steps + 1
    /\ UNCHANGED <<nb, strict, a, b, txt, err>>

\* x *= b; out.value is b * x, the operands the other way round
MulAssign ==
    /\ op = "init"
    /\ x' = mul_eq(nb, x, b)
    /\ out' = [out EXCEPT !.value = mul_eq(nb, b, x)]
    /\ op' = "mul_eq"
    /\ steps' = steps + 1
    /\ UNCHANGED <<nb, strict, a, b, txt, err>>

\* x *= x
Square ==
    /\ op = "init"
    /\ x' = mul_eq(nb, x, x)
    /\ op' = "square"
    /\ steps' = steps + 1
    /\ UNCHANGED <<nb, strict, a, b, txt, err, out>>

\* findMsb(x), then the loop of TestFindMsb on x: out.read is the first index
\* returned, out.arg the number of resets, out.flag whether the indices fell
FindMsbDrain ==
    /\ op = "init"
    /\ \E r \in {FindMsbLoop(nb, x, 0, 0, TRUE)} :
       /\ x' = r.value
       /\ err' = r.err
       /\ out' = [out EXCEPT !.read = findMsb(nb, x), !.arg = r.resets,
                             !.flag = r.descending]
    /\ op' = "findMsb"
    /\ steps' = steps + 1
    /\ UNCHANGED <<nb, strict, a, b, txt>>

\* scale(x): out.read is the number returned
Scale ==
    /\ op = "init"
    /\ out' = [out EXCEPT !.read = scale(nb, x)]
    /\ op' = "scale"
    /\ steps' = steps + 1
    /\ UNCHANGED <<nb, strict, x, a, b, txt, err>>

NextArith ==
    \/ AddAssign \/ SubAssign \/ Negate \/ TwosComplement
    \/ Less \/ Greater \/ LessEqual \/ GreaterEqual
    \/ ShlAssign \/ ShrAssign \/ MulAssign \/ Square
    \/ FindMsbDrain \/ Scale

SpecArith == InitArith /\ [][NextArith]_vars

(***************************************************************************)
(* SpecNative: a native value assigned to x and converted back.            *)
(* out.arg is the native value, out.read the long long read back.          *)
(***************************************************************************)
NativeWidths == Widths \cup {NativeBits, NativeBits + 1}

NativeValues == (-(Pow2(WideBits - 1) + 1))..Pow2(WideBits - 1)

InitNative ==
    /\ nb \in NativeWidths
    /\ strict = TRUE
    /\ x = clear(nb)
    /\ a = clear(nb)
    /\ b = clear(nb)
    /\ txt = <<>>
    /\ op = "init"
    /\ err = "none"
    /\ \E v \in NativeValues : out = [NoOut(nb) EXCEPT !.arg = v]
    /\ steps = 0

\* x = out.arg
AssignNative ==
    /\ op = "init"
    /\ x' = assign_native(nb, out.arg)
    /\ a' = x
    /\ op' = "assign_native"
    /\ steps' = steps + 1
    /\ UNCHANGED <<nb, strict, b, txt, err, out>>

\* (long long)x
ToLongLong ==
    /\ op \in {"init", "assign_native"}
    /\ out' = [out EXCEPT !.read = to_long_long(nb, x)]
    /\ op' = "to_long_long"
    /\ steps' = steps + 1
    /\ UNCHANGED <<nb, strict, x, a, b, txt, err>>

\* the bytes a read past the end of b may find
StrayBytes == {0, 255}

NativeCopy(name, result) ==
    /\ out' = [out EXCEPT !.reads = result.reads, !.writes = result.writes,
                          !.bytes = result.bytes]
    /\ op' = name
    /\ steps' = steps + 1
    /\ UNCHANGED <<nb, strict, x, a, b, txt, err>>

\* x.to_ushort()
ToUShort ==
    /\ op \in {"init", "assign_native"}
    /\ \E stray \in [1..3 -> StrayBytes] : NativeCopy("to_ushort", to_ushort(nb, x, stray))

\* x.to_uint()
ToUInt ==
    /\ op \in {"init", "assign_native"}
    /\ \E stray \in [1..3 -> StrayBytes] : NativeCopy("to_uint", to_uint(nb, x, stray))

\* x.to_ulong()
ToULong ==
    /\ op \in {"init", "assign_native"}
    /\ NativeCopy("to_ulong", to_ulong(nb, x))

\* x.to_ulong_long()
ToULongLong ==
    /\ op \in {"init", "assign_native"}
    /\ NativeCopy("to_ulong_long", to_ulong_long(nb, x))

NextNative ==
    \/ AssignNative
    \/ ToLongLong
    \/ ToUShort
    \/ ToUInt
    \/ ToULong
    \/ ToULongLong

SpecNative == InitNative /\ [][NextNative]_vars

(***************************************************************************)
(* SpecIpow: ipow(a, b), one pass of its loop per step.  x is base,        *)
(* out.exp is exp, out.value is result; steps counts the passes.           *)
(***************************************************************************)
\* no run of the loop is followed beyond this many passes
PassCap(n) == n + 1

\* integer<nbits> result(1), base(a), exp(b)
InitIpow ==
    /\ nb \in Widths
    /\ strict = TRUE
    /\ a \in Operands(nb)
    /\ b \in Operands(nb)
    /\ x = a
    /\ txt = <<>>
    /\ op = "ipow"
    /\ err = "none"
    /\ out = [NoOut(nb) EXCEPT !.value = assign_native(nb, 1), !.exp = b]
    /\ steps = 0

IpowPass ==
    /\ op = "ipow"
    /\ steps < PassCap(nb)
    /\ \E s \in {ipow_pass(nb, [result |-> out.value, base |-> x, exp |-> out.exp])} :
       /\ x' = s.base
       /\ out' = [out EXCEPT !.value = s.result, !.exp = s.exp]
       /\ op' = IF s.done THEN "ipow_done" ELSE "ipow"
    /\ steps' = steps + 1
    /\ UNCHANGED <<nb, strict, a, b, txt, err>>

NextIpow == IpowPass

SpecIpow == InitIpow /\ [][NextIpow]_vars

(***************************************************************************)
(* SpecDecimal: impl::decimal operands a and b under unpad, less, add and  *)
(* sub; x is lhs as the call leaves it, out.flag what less returned,       *)
(* out.arg the number of calls of add and sub made, out.ok whether the     *)
(* chain of calls returned.                                                *)
(***************************************************************************)
DecimalDigits == {0, 5, 9}

Decimals ==
    {[sign |-> sg, d |-> ds] :
        sg \in BOOLEAN, ds \in StringsUpTo(DecimalDigits, MaxDecimalLen) \ {<<>>}}

InitDecimal ==
    /\ nb = NarrowBits
    /\ strict = TRUE
    /\ a \in Decimals
    /\ b \in Decimals
    /\ x = a
    /\ txt = <<>>
    /\ op = "init"
    /\ err = "none"
    /\ out = NoOut(nb)
    /\ steps = 0

\* x.unpad()
Unpad ==
    /\ op = "init"
    /\ x' = [x EXCEPT !.d = unpad(x.d)]
    /\ op' = "unpad"
    /\ steps' = steps + 1
    /\ UNCHANGED <<nb, strict, a, b, txt, err, out>>

\* less(x, b)
DecimalLess ==
    /\ op = "init"
    /\ out' = [out EXCEPT !.flag = less(x, b)]
    /\ op' = "less"
    /\ steps' = steps + 1
    /\ UNCHANGED <<nb, strict, x, a, b, txt, err>>

\* add(x, b)
DecimalAdd ==
    /\ op = "init"
    /\ \E r \in {add_call(x, b, 0)} :
       /\ x' = r.value
       /\ out' = [out EXCEPT !.arg = r.calls, !.ok = r.returned]
    /\ op' = "add"
    /\ steps' = steps + 1
    /\ UNCHANGED <<nb, strict, a, b, txt, err>>

\* sub(x, b)
DecimalSub ==
    /\ op = "init"
    /\ \E r \in {sub_call(x, b, 0)} :
       /\ x' = r.value
       /\ out' = [out EXCEPT !.arg = r.calls, !.ok = r.returned]
    /\ op' = "sub"
    /\ steps' = steps + 1
    /\ UNCHANGED <<nb, strict, a, b, txt, err>>

NextDecimal == Unpad \/ DecimalLess \/ DecimalAdd \/ DecimalSub

SpecDecimal == InitDecimal /\ [][NextDecimal]_vars

(***************************************************************************)
(* SpecText: rendering a, parsing the rendered text back, parsing txt.     *)
(***************************************************************************)
InitText ==
    /\ nb \in Widths
    /\ strict = TRUE
    /\ \/ a \in Operands(nb) /\ txt = <<>>
       \/ a \in {clear(nb), convert(nb, -1)} /\ txt \in Strings
    /\ b = clear(nb)
    /\ x = a
    /\ op = "init"
    /\ err = "none"
    /\ out = NoOut(nb)
    /\ steps = 0

\* convert_to_decimal_string(x)
Render ==
    /\ op = "init"
    /\ txt = <<>>
    /\ out' = [out EXCEPT !.text = convert_to_decimal_string(nb, x)]
    /\ op' = "render"
    /\ steps' = steps + 1
    /\ UNCHANGED <<nb, strict, x, a, b, txt, err>>

\* parse(text, x), text being what Render returned
ParseRendered ==
    /\ op = "render"
    /\ \E r \in {parse(nb, out.text)} :
       /\ err' = r.err
       /\ x' = r.value
       /\ out' = IF r.err = "none" THEN [out EXCEPT !.ok = r.ok] ELSE out
    /\ op' = "roundtrip"
    /\ steps' = steps + 1
    /\ UNCHANGED <<nb, strict, a, b, txt>>

\* parse(txt, x)
Parse ==
    /\ op = "init"
    /\ \E r \in {parse(nb, txt)} :
       /\ err' = r.err
       /\ x' = r.value
       /\ out' = IF r.err = "none" THEN [out EXCEPT !.ok = r.ok] ELSE out
    /\ op' = "parse"
    /\ steps' = steps + 1
    /\ UNCHANGED <<nb, strict, a, b, txt>>

NextText == Render \/ ParseRendered \/ Parse

SpecText == InitText /\ [][NextText]_vars

(***************************************************************************)
(* Spec: an integer<nb> x, default constructed, under its public mutators. *)
(* a is x as the last operation found it, b the operand, txt the text and  *)
(* out.arg the index, shift or native value that operation was given; err  *)
(* is the exception it threw.                                              *)
(***************************************************************************)
BitIndexes(n) == {0, n - 1, n, 8 * nrBytes(n)}

ByteIndexes(n) == 0..nrBytes(n)

ByteValues == {0, 128, 255}

RawValues == {5, 255, 65535}

Natives(n) == {-1, 0, 1, MaxValue(n) + 1}

Args(n) == {convert(n, k) : k \in {-1, 0, 2, MinValue(n)}}

Shifts(n) == {-1, 0, 1, n}

Texts ==
    { <<"1", "9">>, <<"0", "1">>, <<"-", "1">>,
      <<"0", "x", "F", "F">>, <<"0", "x", "1", "0", "0">> }

BitThrow(n, i) == IF InRange(n, i) THEN "none" ELSE "integer<nbits> bit index out of bounds"

ByteThrow(n, i) == IF ByteInRange(n, i) THEN "none" ELSE "integer_byte_index_out_of_bounds"

AtThrow(n, i) == IF InRange(n, i) THEN "none" ELSE "bit index out of bounds"

\* integer() { setzero(); }
Init ==
    /\ nb \in Widths
    /\ strict \in BOOLEAN
    /\ x = clear(nb)
    /\ a = clear(nb)
    /\ b = clear(nb)
    /\ txt = <<>>
    /\ op = "init"
    /\ err = "none"
    /\ out = NoOut(nb)
    /\ steps = 0

\* what every operation leaves behind: the new x, what it threw, its inputs
Done(name, value, thrown, operand, text, o) ==
    /\ steps' = steps + 1
    /\ op' = name
    /\ a' = x
    /\ x' = value
    /\ err' = thrown
    /\ b' = operand
    /\ txt' = text
    /\ out' = o
    /\ UNCHANGED <<nb, strict>>

WithArg(k) == [NoOut(nb) EXCEPT !.arg = k]

\* x.at(i): out.read is the bit returned
DoAt ==
    /\ steps < MaxSteps
    /\ \E i \in BitIndexes(nb) :
           Done("at", x, AtThrow(nb, i), clear(nb), <<>>,
                [NoOut(nb) EXCEPT !.arg = i,
                                  !.read = IF InRange(nb, i) /\ at(nb, x, i) THEN 1 ELSE 0])

\* x.byte(i): out.read is the byte returned
DoByte ==
    /\ steps < MaxSteps
    /\ \E i \in ByteIndexes(nb) :
           Done("byte", x, ByteThrow(nb, i), clear(nb), <<>>,
                [NoOut(nb) EXCEPT !.arg = i,
                                  !.read = IF ByteInRange(nb, i) THEN byte(nb, x, i) ELSE 0])

\* x.set(i)
DoSet ==
    /\ steps < MaxSteps
    /\ \E i \in BitIndexes(nb) :
           Done("set", set(nb, x, i), BitThrow(nb, i), clear(nb), <<>>, WithArg(i))

\* x.reset(i)
DoReset ==
    /\ steps < MaxSteps
    /\ \E i \in BitIndexes(nb) :
           Done("reset", reset(nb, x, i), BitThrow(nb, i), clear(nb), <<>>, WithArg(i))

\* x.set(i, v)
DoSetBit ==
    /\ steps < MaxSteps
    /\ \E i \in BitIndexes(nb), v \in BOOLEAN :
           Done("setbit", setbit(nb, x, i, v), BitThrow(nb, i), clear(nb), <<>>,
                [NoOut(nb) EXCEPT !.arg = i, !.flag = v])

\* x.setbyte(i, value)
DoSetByte ==
    /\ steps < MaxSteps
    /\ \E i \in ByteIndexes(nb), value \in ByteValues :
           Done("setbyte", setbyte(nb, x, i, value), ByteThrow(nb, i), clear(nb), <<>>,
                WithArg(i))

\* x.set_raw_bits(value)
DoSetRawBits ==
    /\ steps < MaxSteps
    /\ \E value \in RawValues :
           Done("set_raw_bits", set_raw_bits(nb, value), "none", clear(nb), <<>>,
                WithArg(value))

\* x.flip()
DoFlip ==
    /\ steps < MaxSteps
    /\ Done("flip", flip(nb, x), "none", clear(nb), <<>>, NoOut(nb))

\* x.clear()
DoClear ==
    /\ steps < MaxSteps
    /\ Done("clear", clear(nb), "none", clear(nb), <<>>, NoOut(nb))

\* x.bitcopy(src) for an integer<sn> src
DoBitcopy ==
    /\ steps < MaxSteps
    /\ \E sn \in Widths : \E k \in {-1} :
           Done("bitcopy", bitcopy(nb, sn, convert(sn, k)), "none", clear(nb), <<>>,
                WithArg(sn))

\* x = rhs for a native rhs
DoAssignNative ==
    /\ steps < MaxSteps
    /\ \E rhs \in Natives(nb) :
           Done("assign_native", assign_native(nb, rhs), "none", clear(nb), <<>>,
                WithArg(rhs))

\* x += rhs
DoAdd ==
    /\ steps < MaxSteps
    /\ \E rhs \in Args(nb) : Done("add_eq", add_eq(nb, x, rhs), "none", rhs, <<>>, NoOut(nb))

\* x -= rhs
DoSub ==
    /\ steps < MaxSteps
    /\ \E rhs \in Args(nb) : Done("sub_eq", sub_eq(nb, x, rhs), "none", rhs, <<>>, NoOut(nb))

\* x *= rhs
DoMul ==
    /\ steps < MaxSteps
    /\ \E rhs \in Args(nb) : Done("mul_eq", mul_eq(nb, x, rhs), "none", rhs, <<>>, NoOut(nb))

\* x /= rhs
DoDiv ==
    /\ steps < MaxSteps
    /\ \E rhs \in Args(nb) : \E r \in {div_eq(nb, strict, x, rhs)} :
           Done("div_eq", r.value, r.err, rhs, <<>>, NoOut(nb))

\* x %= rhs
DoRem ==
    /\ steps < MaxSteps
    /\ \E rhs \in Args(nb) : \E r \in {rem_eq(nb, strict, x, rhs)} :
           Done("rem_eq", r.value, r.err, rhs, <<>>, NoOut(nb))

\* x <<= shift
DoShl ==
    /\ steps < MaxSteps
    /\ \E shift \in Shifts(nb) :
           Done("shl_eq", shl_eq(nb, x, shift), "none", clear(nb), <<>>, WithArg(shift))

\* x >>= shift
DoShr ==
    /\ steps < MaxSteps
    /\ \E shift \in Shifts(nb) :
           Done("shr_eq", shr_eq(nb, x, shift), "none", clear(nb), <<>>, WithArg(shift))

\* ++x
DoIncrement ==
    /\ steps < MaxSteps
    /\ Done("increment", increment(nb, x), "none", clear(nb), <<>>, NoOut(nb))

\* --x
DoDecrement ==
    /\ steps < MaxSteps
    /\ Done("decrement", decrement(nb, x), "none", clear(nb), <<>>, NoOut(nb))

\* parse(text, x)
DoParse ==
    /\ steps < MaxSteps
    /\ \E text \in Texts : \E r \in {parse(nb, text)} :
           Done("parse", r.value, r.err, clear(nb), text, [NoOut(nb) EXCEPT !.ok = r.ok])

\* x.assign(text)
DoAssign ==
    /\ steps < MaxSteps
    /\ \E text \in Texts : \E r \in {assign(nb, text)} :
           Done("assign", r.value, r.err, clear(nb), text, NoOut(nb))

\* x < rhs, x == rhs, rhs < x and x <= rhs, in out.cmp
DoCompare ==
    /\ steps < MaxSteps
    /\ \E rhs \in Args(nb) :
           Done("compare", x, "none", rhs, <<>>,
                [NoOut(nb) EXCEPT !.cmp = [lt |-> op_lt(nb, x, rhs), eq |-> op_eq(nb, x, rhs),
                                           gt |-> op_lt(nb, rhs, x), le |-> op_le(nb, x, rhs)]])

Next ==
    \/ DoSet \/ DoReset \/ DoSetBit \/ DoSetByte \/ DoSetRawBits
    \/ DoFlip \/ DoClear \/ DoBitcopy \/ DoAssignNative
    \/ DoAdd \/ DoSub \/ DoMul \/ DoDiv \/ DoRem
    \/ DoShl \/ DoShr \/ DoIncrement \/ DoDecrement
    \/ DoParse \/ DoAssign
    \/ DoAt \/ DoByte \/ DoCompare

Spec == Init /\ [][Next]_vars

(***************************************************************************)
(* Properties.                                                             *)
(***************************************************************************)
NonZero(n, v) == Signed(n, v) # 0

\* C1: after any sequence of public mutating operations on an integer<N>,
\* every storage bit at position >= N is zero (the top byte is masked), for
\* every width N, those that are not a multiple of 8 included.
C1_MaskedTopUnit == Masked(nb, x)


\* C2: for all N-bit a and b with b # 0, the quotient and remainder of one
\* division satisfy a == (a / b) * b + (a % b) in N-bit arithmetic, also
\* when a or b is the minimum representable value.
C2_DivisionIdentity ==
    (op = "idiv" /\ NonZero(nb, b)) =>
        /\ err = "none"
        /\ Masked(nb, out.quot) /\ Masked(nb, out.rem)
        /\ Signed(nb, a)
             = Wrap(nb, Signed(nb, out.quot) * Signed(nb, b) + Signed(nb, out.rem))
        /\ op_eq(nb, a, add_eq(nb, mul_eq(nb, out.quot, b), out.rem))

C2_Witness ==
    /\ op = "idiv"
    /\ err = "none"
    /\ Signed(nb, a) = MinValue(nb)
    /\ Signed(nb, b) = -1

\* C3: idiv(a, b) with b # 0 truncates: the quotient is the exact quotient
\* rounded toward zero whenever that is representable in N bits, and a
\* nonzero remainder has the sign of the dividend; -7 divided by 2 gives
\* quotient -3 and remainder -1.
C3_TruncatingDivision ==
    /\ (op = "idiv" /\ NonZero(nb, b)) =>
          LET q == TruncDiv(Signed(nb, a), Signed(nb, b))
          IN  /\ err = "none"
              /\ (q \in MinValue(nb)..MaxValue(nb)) => Signed(nb, out.quot) = q
              /\ NonZero(nb, out.rem) => (Signed(nb, out.rem) < 0) = (Signed(nb, a) < 0)
    /\ (op = "idiv" /\ Signed(nb, a) = -7 /\ Signed(nb, b) = 2) =>
          /\ err = "none"
          /\ Signed(nb, out.quot) = -3
          /\ Signed(nb, out.rem) = -1

C3_Witness ==
    /\ op = "idiv"
    /\ err = "none"
    /\ Signed(nb, a) = -7
    /\ Signed(nb, b) = 2
    /\ Signed(nb, out.quot) = -3
    /\ Signed(nb, out.rem) = -1

\* C7: in strict mode idiv(a, 0), divide, remainder, a / 0 and a % 0 signal
\* DivideByZero for every a, no quotient or remainder is returned, and
\* a /= 0 and a %= 0 leave a unchanged.
C7_StrictDivideByZero ==
    (strict /\ op # "init" /\ ~NonZero(nb, b)) =>
        /\ err = "integer_divide_by_zero"
        /\ out = NoOut(nb)
        /\ x = a

C7_Witness ==
    /\ strict
    /\ op = "div_eq"
    /\ ~NonZero(nb, b)
    /\ Signed(nb, a) = MinValue(nb)
    /\ err = "integer_divide_by_zero"

\* C8: in permissive mode a division by zero is never a hard failure: for
\* every dividend a, the minimum representable value included, idiv(a, 0)
\* logs a diagnostic and returns a quotient/remainder pair without
\* signalling an error.
C8_PermissiveDivideByZero ==
    (~strict /\ op = "idiv" /\ ~NonZero(nb, b)) =>
        /\ err = "none"
        /\ out.logged

\* C5: addition and subtraction never report overflow: a + b and a - b are
\* the exact sum and difference reduced modulo 2^N into the two's-complement
\* range; for N = 8, 127 + 1 == -128 and -128 - 1 == 127.
C5_AddSubWrap ==
    /\ op = "add_eq" =>
          /\ err = "none"
          /\ Masked(nb, x)
          /\ Signed(nb, x) = Wrap(nb, Signed(nb, a) + Signed(nb, b))
    /\ op = "sub_eq" =>
          /\ err = "none"
          /\ Masked(nb, x)
          /\ Signed(nb, x) = Wrap(nb, Signed(nb, a) - Signed(nb, b))
    /\ add_eq(8, convert(8, 127), convert(8, 1)) = convert(8, -128)
    /\ sub_eq(8, convert(8, -128), convert(8, 1)) = convert(8, 127)

C5_Witness ==
    /\ op = "add_eq"
    /\ Signed(nb, a) = MaxValue(nb)
    /\ Signed(nb, b) = 1
    /\ Signed(nb, x) = MinValue(nb)

\* C6: for every N-bit a other than the minimum representable value,
\* a + (-a) == 0, -a being unary negation (one's complement plus one).
C6_NegationIdentity ==
    (op = "negate" /\ Signed(nb, a) # MinValue(nb)) =>
        /\ iszero(nb, add_eq(nb, a, out.value))
        /\ Signed(nb, out.value) = -Signed(nb, a)

C6_Witness ==
    /\ op = "negate"
    /\ Signed(nb, a) = -3
    /\ Signed(nb, out.value) = 3

\* C4: for every representable a (zero, positive, negative, the minimum),
\* parsing the decimal text rendered from a succeeds and yields a:
\* parse(render(a)) == a.
C4_DecimalRoundTrip ==
    op = "roundtrip" =>
        /\ err = "none"
        /\ out.ok
        /\ op_eq(nb, x, a)

\* C9: parse never fails fatally: for every input string and every width it
\* returns a boolean without signalling an error, and whenever it returns
\* false the target is zero.
C9_ParseNeverFatal ==
    op = "parse" =>
        /\ err = "none"
        /\ ~out.ok => iszero(nb, x)

\* C10 as stated: for every string of one or more decimal digits, leading
\* zeros included, parse returns true and the target holds the number the
\* string denotes, reduced modulo 2^N.
C10_EveryDigitString ==
    (op = "parse" /\ decimal_regex(txt)) =>
        /\ err = "none"
        /\ out.ok
        /\ Unsigned(nb, x) = DecimalNumber(txt, Len(txt)) % Pow2(nb)

\* C10 as amended: for every string of one or more decimal digits that does
\* not match the octal pattern 0[1-7][0-7]*, parse returns true and the
\* target holds the number the string denotes, reduced modulo 2^N.
C10_DigitStringNotOctal ==
    (op = "parse" /\ decimal_regex(txt) /\ ~octal_regex(txt)) =>
        /\ err = "none"
        /\ out.ok
        /\ Masked(nb, x)
        /\ Unsigned(nb, x) = DecimalNumber(txt, Len(txt)) % Pow2(nb)

C10_Witness ==
    /\ op = "parse"
    /\ out.ok
    /\ txt = <<"0", "1", "7", "9">>
    /\ Unsigned(nb, x) = 179 % Pow2(nb)

\* C11: for every input matching 0[xX][0-9a-fA-F']+ whose number fits in N
\* bits, leading zero digits allowed, parse returns true and the stored
\* pattern is that number, apostrophes ignored; in an 8-bit integer "0x1F"
\* yields 31 and "0xFF" yields -1.
C11_HexParse ==
    /\ (op = "parse" /\ hex_regex(txt) /\ HexNumber(txt, Len(txt)) < Pow2(nb)) =>
          /\ err = "none"
          /\ out.ok
          /\ Masked(nb, x)
          /\ Unsigned(nb, x) = HexNumber(txt, Len(txt))
    /\ (op = "parse" /\ nb = 8 /\ txt = <<"0", "x", "1", "F">>) => Signed(nb, x) = 31
    /\ (op = "parse" /\ nb = 8 /\ txt = <<"0", "x", "F", "F">>) => Signed(nb, x) = -1

\* C12: parse returns false for every input matching the octal pattern
\* ^0[1-7][0-7]*$, whatever its digits, and leaves the target zero.
C12_OctalRejected ==
    (op = "parse" /\ octal_regex(txt)) =>
        /\ err = "none"
        /\ ~out.ok
        /\ iszero(nb, x)

C12_Witness ==
    /\ op = "parse"
    /\ txt = <<"0", "1", "7">>
    /\ ~iszero(nb, a)
    /\ ~out.ok
    /\ iszero(nb, x)

\* C13: the rendered text of every N-bit a is the canonical decimal numeral
\* of its signed value: "0" for zero, otherwise a leading '-' exactly when a
\* is negative, then the digits of |a| without a leading zero, the minimum
\* value included; a value with all bits set renders as "-1".
C13_CanonicalNumeral ==
    op = "render" =>
        /\ Signed(nb, a) = 0 => out.text = <<"0">>
        /\ Signed(nb, a) > 0 => out.text = Numeral(Signed(nb, a))
        /\ Signed(nb, a) < 0 => out.text = <<"-">> \o Numeral(-Signed(nb, a))
        /\ Unsigned(nb, a) = Pow2(nb) - 1 => out.text = <<"-", "1">>

C13_Witness ==
    /\ op = "render"
    /\ nb = 8
    /\ Signed(nb, a) = MinValue(nb)
    /\ out.text = <<"-", "1", "2", "8">>

\* C14: set(i), reset(i), set(i, v) and at(i) fail with an index error for
\* every i >= N, byte(i) and setbyte(i, value) fail with a byte index error
\* for every i >= nrBytes, and in each such failure the stored value is
\* unchanged.
C14_OutOfRangeRejected ==
    /\ (op \in {"set", "reset", "setbit"} /\ out.arg >= nb) =>
          /\ err = "integer<nbits> bit index out of bounds"
          /\ x = a
    /\ (op = "at" /\ out.arg >= nb) =>
          /\ err = "bit index out of bounds"
          /\ x = a
    /\ (op \in {"byte", "setbyte"} /\ out.arg >= nrBytes(nb)) =>
          /\ err = "integer_byte_index_out_of_bounds"
          /\ x = a

C14_Witness ==
    /\ op = "set"
    /\ out.arg = nb
    /\ nb = NarrowBits
    /\ err = "integer<nbits> bit index out of bounds"
    /\ ~iszero(nb, a)
    /\ x = a

\* C15: for every i < N, set(i), reset(i) and set(i, v) change only bit i,
\* to 1, 0 and v: every other bit of the storage, hence at(j) for every
\* j # i, is as it was.
C15_OnlyBitChanged ==
    (op \in {"set", "reset", "setbit"} /\ out.arg < nb) =>
        /\ err = "none"
        /\ at(nb, x, out.arg) = (op = "set" \/ (op = "setbit" /\ out.flag))
        /\ \A j \in 0..(8 * nrBytes(nb) - 1) :
               j # out.arg => at(nb, x, j) = at(nb, a, j)

C15_Witness ==
    /\ op = "reset"
    /\ out.arg = 0
    /\ Unsigned(nb, a) = Pow2(nb) - 1
    /\ Unsigned(nb, x) = Pow2(nb) - 2

\* the number of set bits among the nbits value bits of v
PopCount(n, v) == Cardinality({j \in 0..(n - 1) : at(n, v, j)})

\* the index of the highest set value bit of v, -1 when there is none
HighestBit(n, v) ==
    IF \A j \in 0..(n - 1) : ~at(n, v, j) THEN -1
    ELSE CHOOSE k \in 0..(n - 1) :
             at(n, v, k) /\ \A j \in (k + 1)..(n - 1) : ~at(n, v, j)

\* C16: findMsb(v) is the index of the highest set bit of v, -1 for zero, and
\* calling findMsb and resetting the bit it returned, again and again, gives
\* falling indices and ends with -1 after as many resets as v had set bits.
C16_FindMsbDrain ==
    op = "findMsb" =>
        /\ out.read = HighestBit(nb, a)
        /\ err = "none"
        /\ out.flag
        /\ out.arg = PopCount(nb, a)
        /\ findMsb(nb, x) = -1

C16_Witness ==
    /\ op = "findMsb" /\ nb = WideBits
    /\ Signed(nb, a) = -3
    /\ out.read = WideBits - 1 /\ out.arg = WideBits - 1
    /\ iszero(nb, x)

\* C17: for operands with a masked top byte, a < b is the comparison of the
\* signed two's-complement numbers, and >, <=, >= are the matching ones.
C17_SignedOrdering ==
    (Masked(nb, a) /\ Masked(nb, b)) =>
        /\ op = "lt" => out.flag = (Signed(nb, a) < Signed(nb, b))
        /\ op = "gt" => out.flag = (Signed(nb, a) > Signed(nb, b))
        /\ op = "le" => out.flag = (Signed(nb, a) <= Signed(nb, b))
        /\ op = "ge" => out.flag = (Signed(nb, a) >= Signed(nb, b))
        /\ (op = "lt" /\ Signed(nb, a) < 0 /\ Signed(nb, b) >= 0) => out.flag

C17_Witness ==
    /\ op = "lt" /\ nb = WideBits
    /\ Signed(nb, a) = -1 /\ Signed(nb, b) = 0
    /\ out.flag

\* bit j of v moved s places toward the high end (s < 0: toward the low end)
MovedBit(n, v, j, s) == (j - s) \in 0..(n - 1) /\ at(n, v, j - s)

\* C18: a <<= s moves bit i to i + s and a >>= s moves bit i to i - s, bits
\* moved out are dropped and vacated bits are zero (a right shift is logical);
\* a shift of nbits or more gives zero, a negative amount is the opposite
\* shift, a shift by 0 changes nothing.
C18_ShiftSemantics ==
    /\ op = "shl_eq" =>
          \A j \in 0..(nb - 1) : at(nb, x, j) = MovedBit(nb, a, j, out.arg)
    /\ op = "shr_eq" =>
          \A j \in 0..(nb - 1) : at(nb, x, j) = MovedBit(nb, a, j, -out.arg)
    /\ (op \in {"shl_eq", "shr_eq"} /\ out.arg # 0) => Masked(nb, x)
    /\ (op \in {"shl_eq", "shr_eq"} /\ out.arg = 0) => x = a
    /\ (op \in {"shl_eq", "shr_eq"} /\ (out.arg >= nb \/ -out.arg >= nb)) => iszero(nb, x)
    /\ (op = "shr_eq" /\ out.arg > 0) => ~sign(nb, x)

C18_Witness ==
    /\ op = "shr_eq" /\ nb = ByteBits /\ out.arg = 1
    /\ Signed(nb, a) = -2
    /\ Signed(nb, x) = 127

\* C19: a * b is the exact product reduced modulo 2^nbits, for negative
\* operands and for a *= a as well, and a * b == b * a.
C19_ProductModulo ==
    /\ op = "mul_eq" =>
          /\ Masked(nb, x)
          /\ Signed(nb, x) = Wrap(nb, Signed(nb, a) * Signed(nb, b))
          /\ op_eq(nb, x, out.value)
    /\ op = "square" =>
          /\ Masked(nb, x)
          /\ Signed(nb, x) = Wrap(nb, Signed(nb, a) * Signed(nb, a))

C19_Witness ==
    /\ op = "mul_eq" /\ nb = ByteBits
    /\ Signed(nb, a) = -7 /\ Signed(nb, b) = 127
    /\ Signed(nb, x) = -121

\* C20: unary minus and twos_complement of the minimum value, the one with
\* only bit nbits-1 set, give the minimum value again.
C20_NegatedMinimum ==
    (op \in {"negate", "twos_complement"} /\ a = min_int(nb)) =>
        /\ op_eq(nb, out.value, min_int(nb))
        /\ Signed(nb, out.value) = MinValue(nb)

C20_Witness ==
    /\ op = "twos_complement" /\ nb = WideBits
    /\ a = min_int(nb)
    /\ out.value = a

\* the largest e with 2^e <= k, for k >= 1
RECURSIVE FloorLog2(_)
FloorLog2(k) == IF k <= 1 THEN 0 ELSE 1 + FloorLog2(k \div 2)

\* C21: for every nonzero value v, scale(v) is floor(log2(|v|)) of the signed
\* value; for the minimum value it is nbits - 1.
C21_ScaleIsFloorLog2 ==
    (op = "scale" /\ Signed(nb, a) # 0) =>
        /\ out.read = FloorLog2(Abs(Signed(nb, a)))
        /\ Signed(nb, a) = MinValue(nb) => out.read = nb - 1

C21_Witness ==
    /\ op = "scale" /\ nb = ByteBits
    /\ Signed(nb, a) = -7
    /\ out.read = 2

\* v lies between min_int and max_int of an integer<n>
Representable(n, v) == n > NativeLimit \/ (MinValue(n) <= v /\ v <= MaxValue(n))

\* C22: a native signed value representable in nbits bits, assigned to an
\* integer<nbits> and converted back to a long long, is the same value again.
C22_NativeRoundTrip ==
    (op = "to_long_long" /\ steps = 2 /\ Representable(nb, out.arg)) =>
        out.read = out.arg

C22_Witness ==
    /\ op = "to_long_long" /\ steps = 2
    /\ nb = NativeBits + 1
    /\ out.arg = -Pow2(WideBits - 1)
    /\ at(nb, x, NativeBits)
    /\ out.read = out.arg

\* k multiplied by itself e times, reduced modulo 2^n as it grows
RECURSIVE PowMod(_, _, _)
PowMod(n, k, e) == IF e = 0 THEN 1 ELSE ((k % Pow2(n)) * PowMod(n, k, e - 1)) % Pow2(n)

\* C23: ipow(a, b) ends for every a and b (its loop makes at most nbits
\* passes), and for b >= 0 it returns a multiplied by itself b times modulo
\* 2^nbits; ipow(a, 2) == a * a and ipow(a, 0) == 1.
C23_IpowPower ==
    /\ op = "ipow" => steps < nb
    /\ (op = "ipow_done" /\ Signed(nb, b) >= 0) =>
          /\ Masked(nb, out.value)
          /\ Unsigned(nb, out.value) = PowMod(nb, Signed(nb, a), Signed(nb, b))
    /\ (op = "ipow_done" /\ Signed(nb, b) = 2) => out.value = mul_eq(nb, a, a)
    /\ (op = "ipow_done" /\ Signed(nb, b) = 0) => Signed(nb, out.value) = 1

C23_Witness ==
    /\ op = "ipow_done" /\ nb = ByteBits
    /\ Signed(nb, a) = -3 /\ Signed(nb, b) = 5
    /\ Signed(nb, out.value) = 13

\* C24: in idiv the (nbits + 1)-bit temporary built for an operand, the
\* minimum value included, holds the absolute value of the operand: its bit
\* nbits is clear and its number is |x|.
C24_WidenedAbsolute ==
    (op = "idiv" /\ err # "integer_divide_by_zero") =>
        /\ ~at(nb + 1, out.ua, nb)
        /\ ~at(nb + 1, out.ub, nb)
        /\ Masked(nb + 1, out.ua) /\ Masked(nb + 1, out.ub)
        /\ Unsigned(nb + 1, out.ua) = Abs(Signed(nb, a))
        /\ Unsigned(nb + 1, out.ub) = Abs(Signed(nb, b))

C24_Witness ==
    /\ op = "idiv" /\ nb = ByteBits
    /\ a = min_int(nb) /\ b = min_int(nb)
    /\ Unsigned(nb + 1, out.ua) = Pow2(nb - 1)
    /\ Signed(nb, out.quot) = 1

\* C25: for b # 0 the remainder idiv returns is smaller in magnitude than the
\* divisor, |a % b| < |b|.
C25_RemainderBelowDivisor ==
    (op \in {"idiv", "remainder"} /\ err = "none" /\ Signed(nb, b) # 0) =>
        Abs(Signed(nb, out.rem)) < Abs(Signed(nb, b))

C25_Witness ==
    /\ op = "idiv" /\ nb = WideBits
    /\ Signed(nb, a) = MinValue(nb) /\ Signed(nb, b) = -7
    /\ Signed(nb, out.rem) = -4

\* C26: for values produced by any sequence of public operations, exactly one
\* of a < b, a == b, b < a holds, a <= b is the same as !(b < a), and a == b
\* holds exactly when all nbits value bits of a and b agree.
C26_ComparisonConsistency ==
    op = "compare" =>
        /\ Cardinality({k \in {"lt", "eq", "gt"} : out.cmp[k]}) = 1
        /\ out.cmp.le = ~out.cmp.gt
        /\ out.cmp.eq = (\A j \in 0..(nb - 1) : at(nb, a, j) = at(nb, b, j))

\* the number a digit sequence denotes, least significant digit first
RECURSIVE DigitsNumber(_)
DigitsNumber(d) == IF d = <<>> THEN 0 ELSE Head(d) + 10 * DigitsNumber(Tail(d))

\* d carries no high-end zero digit: its top digit is nonzero, or it is <<0>>
Unpadded(d) == d[Len(d)] # 0 \/ d = <<0>>

\* C27: unpad removes only high-end zero digits: at least one digit remains,
\* the top digit is nonzero unless the value is zero, every remaining digit
\* is unchanged, and the sequence denotes the same number as before.
C27_UnpadKeepsValue ==
    op = "unpad" =>
        /\ Len(x.d) >= 1
        /\ Unpadded(x.d)
        /\ Len(x.d) <= Len(a.d) /\ x.d = SubSeq(a.d, 1, Len(x.d))
        /\ DigitsNumber(x.d) = DigitsNumber(a.d)

\* C28 as claimed: less(lhs, rhs) is the comparison of the magnitudes for any
\* two digit sequences, high-end zero digits or not, whatever the signs.
C28_LessAnySequences ==
    op = "less" => out.flag = (DigitsNumber(a.d) < DigitsNumber(b.d))

\* C28 as amended: less(lhs, rhs) is the comparison of the magnitudes,
\* whatever the signs, for digit sequences of equal length and for digit
\* sequences without high-end zero digits.
C28_LessUnpaddedOrEqualLength ==
    (op = "less" /\ (Len(a.d) = Len(b.d) \/ (Unpadded(a.d) /\ Unpadded(b.d)))) =>
        out.flag = (DigitsNumber(a.d) < DigitsNumber(b.d))

C28_Witness ==
    /\ op = "less"
    /\ a.d = <<9, 0, 5>> /\ b.d = <<5, 9, 5>> /\ a.sign /\ ~b.sign
    /\ out.flag

\* C29: a call of add or sub redirects to the other at most once and ends:
\* the chain of calls returns after one call or two.
C29_RedirectsOnce ==
    op \in {"add", "sub"} =>
        /\ out.ok
        /\ out.arg \in {1, 2}
        /\ out.arg = 2 <=> a.sign # b.sign

C29_Witness ==
    /\ op = "sub"
    /\ a.sign /\ ~b.sign
    /\ a.d = <<5, 9>> /\ b.d = <<5>>
    /\ out.arg = 2 /\ out.ok
    /\ x = [sign |-> TRUE, d |-> <<0, 0, 1>>]


\* C30: the conversions to native unsigned types stay within bounds for every
\* width: every subscript of b they read is below nrBytes, and every byte they
\* write lies inside the native result.
C30_UnsignedInBounds ==
    op \in {"to_ushort", "to_uint", "to_ulong", "to_ulong_long"} =>
        /\ out.reads \subseteq 0..MS_BYTE(nb)
        /\ out.writes \subseteq 0..(NativeSize(op) - 1)

=============================================================================
